---- MODULE Spec2Model ----
(***************************************************************************)
(* State-machine model of cargo-cloudrun: the `deploy`, `new` and `init`   *)
(* subcommands of src/main.rs and the scaffolding helpers of src/init.rs.  *)
(*                                                                         *)
(* A path is the sequence of its '/'-separated segments (absolute paths,   *)
(* the root prefix left implicit); segments "." and "" stand for the       *)
(* redundant forms that Path::components() normalises away.                *)
(***************************************************************************)
EXTENDS Integers, Sequences, FiniteSets, TLC

VARIABLES
    pc,                 \* position of the process inside main / deploy
    command,            \* the parsed subcommand (Commands) with its arguments
    cwd,                \* process working directory
    fs,                 \* file system: existing path -> content
    meta,               \* what `cargo metadata` answers in this environment
    catalog,            \* ALL_EVENT_PATHS of the google_cloudevents crate
    root_dir,           \* deploy: resolved workspace root
    root_package_name,  \* deploy: resolved package name
    delete_dockerfile,  \* deploy: the Dockerfile was written by this run
    cmd_args,           \* deploy: argument vector handed to gcloud
    invocations,        \* external subprocesses started so far, in order
    exit_code,          \* process exit code, NoCode while running
    outcome,            \* which of the code's exits / results was taken
    stderr,             \* messages printed with eprintln!, in order
    start,              \* working directory and file system when the process started
    rw                  \* loop state of rewrite_package_name / map_event_type runs

vars == <<pc, command, cwd, fs, meta, catalog, root_dir, root_package_name,
          delete_dockerfile, cmd_args, invocations, exit_code, outcome, stderr, start, rw>>

NoCode == -1
NoValue == "<none>"
NoPath == <<NoValue>>

\* ---------------------------------------------------------------- bounds
MaxExtraArgs == 2
MaxLines == 4
MaxSuffixLen == 2

\* ---------------------------------------------------------------- paths
Components(p) == SelectSeq(p, LAMBDA s : s \notin {".", ""})

same_file_path(a, b) == Components(a) = Components(b)

Join(p, name) == IF name = "" THEN p ELSE Append(p, name)

\* Path::parent(): the path without its final component; None ("") when there is none
Parent(p) ==
    LET c == Components(p)
    IN IF c = <<>> THEN <<>> ELSE SubSeq(c, 1, Len(c) - 1)

IsPrefix(s, t) == Len(s) <= Len(t) /\ SubSeq(t, 1, Len(s)) = s

\* Path::strip_prefix: Ok(rest) iff base's components are a prefix of p's
StripPrefix(p, base) ==
    LET cp == Components(p)
        cb == Components(base)
    IN IF IsPrefix(cb, cp)
       THEN [ok |-> TRUE, rest |-> SubSeq(cp, Len(cb) + 1, Len(cp))]
       ELSE [ok |-> FALSE, rest |-> <<>>]

\* ---------------------------------------------------------------- cargo metadata
Ws == <<"ws">>
WsA == <<"ws", "a">>
WsB == <<"ws", "b">>
WsASrc == <<"ws", "a", "src">>

Pkg(mp, name) == [manifest_path |-> mp, name |-> name]

\* metadata outputs of the workspaces considered
Workspaces ==
    { \* root package, listed first
      [workspace_root |-> Ws,
       packages |-> << Pkg(<<"ws", "Cargo.toml">>, "svc"), Pkg(<<"ws", "a", "Cargo.toml">>, "a") >>],
      \* root package listed last, manifest path spelt with a redundant "."
      [workspace_root |-> Ws,
       packages |-> << Pkg(<<"ws", "a", "Cargo.toml">>, "a"), Pkg(<<"ws", ".", "Cargo.toml">>, "svc") >>],
      \* virtual workspace, two member packages
      [workspace_root |-> Ws,
       packages |-> << Pkg(<<"ws", "a", "Cargo.toml">>, "a"), Pkg(<<"ws", "b", "Cargo.toml">>, "b") >>],
      \* virtual workspace, first package record has no manifest_path / name
      [workspace_root |-> Ws,
       packages |-> << Pkg(NoPath, "x"), Pkg(<<"ws", "a", "Cargo.toml">>, NoValue),
                       Pkg(<<"ws", "b", "Cargo.toml">>, "b") >>],
      \* root package record without a name
      [workspace_root |-> Ws,
       packages |-> << Pkg(<<"ws", "Cargo.toml">>, NoValue) >>] }

MetaResults == {"ok", "spawn_err", "nonzero", "bad_json", "no_workspace_root", "no_packages"}

Ok2(dir, name) == [ok |-> TRUE, root |-> dir, name |-> name]
Err2 == [ok |-> FALSE, root |-> <<>>, name |-> NoValue]

\* first loop: index of the first package whose manifest is workspace_root/Cargo.toml
RootIdx(w) ==
    LET mp == Join(w.workspace_root, "Cargo.toml")
        hits == { i \in 1..Len(w.packages) :
                    LET pmp == IF w.packages[i].manifest_path = NoPath
                               THEN <<>> ELSE w.packages[i].manifest_path
                    IN same_file_path(pmp, mp) }
    IN IF hits = {} THEN 0 ELSE CHOOSE i \in hits : \A j \in hits : i <= j

\* variant: a package whose directory is a proper ancestor of the current directory also hits
CurrentPkgHitAncestor(w, cur, i) ==
    LET p == w.packages[i]
    IN /\ p.manifest_path # NoPath
       /\ StripPrefix(cur, Parent(p.manifest_path)).ok
       /\ p.name # NoValue

\* second loop: does package i stop the scan (break) for current directory cur
CurrentPkgHit(w, cur, i) ==
    LET p == w.packages[i]
    IN /\ p.manifest_path # NoPath
       /\ LET r == StripPrefix(cur, Parent(p.manifest_path))
          IN r.ok /\ r.rest = <<>>
       /\ p.name # NoValue

CurrentIdx(w, cur) ==
    LET hits == { i \in 1..Len(w.packages) : CurrentPkgHit(w, cur, i) }
    IN IF hits = {} THEN 0 ELSE CHOOSE i \in hits : \A j \in hits : i <= j

\* variant: a failed resolution falls back to the current directory
find_root_package_lenient(m, cur) ==
    IF m.result # "ok" THEN Ok2(cur, "unknown")
    ELSE LET w == m.ws
             r == RootIdx(w)
             c == CurrentIdx(w, cur)
         IN IF r # 0
            THEN IF w.packages[r].name = NoValue THEN Ok2(cur, "unknown")
                 ELSE Ok2(w.workspace_root, w.packages[r].name)
            ELSE IF c # 0 THEN Ok2(w.workspace_root, w.packages[c].name)
                 ELSE Ok2(cur, "unknown")

find_root_package(m, cur) ==
    IF m.result # "ok" THEN Err2
    ELSE LET w == m.ws
             r == RootIdx(w)
             c == CurrentIdx(w, cur)
         IN IF r # 0
            THEN IF w.packages[r].name = NoValue THEN Err2
                 ELSE Ok2(w.workspace_root, w.packages[r].name)
            ELSE IF c # 0 THEN Ok2(w.workspace_root, w.packages[c].name)
                 ELSE Err2

\* ---------------------------------------------------------------- file system
Exists(f, p) == p \in DOMAIN f

DirEntry == [kind |-> "dir", data |-> <<>>]
UserDockerfile == [kind |-> "user", data |-> <<"FROM scratch">>]
UserIgnore == [kind |-> "user", data |-> <<"node_modules">>]

WriteFile(f, p, c) == [q \in DOMAIN f \cup {p} |-> IF q = p THEN c ELSE f[q]]
RemoveFile(f, p) == [q \in DOMAIN f \ {p} |-> f[q]]

\* the format! of deploy(): the package name fills both placeholders
dockerfile_content(name) == [kind |-> "dockerfile", data |-> <<name, name>>]

gcloudignore_content ==
    [kind |-> "gcloudignore",
     data |-> <<"/target/", "/debug/", "/target/**/*", ".git", ".gitignore", ".gcloudignore">>]

\* ---------------------------------------------------------------- deploy
Exit(code, what, msgs) ==
    /\ pc' = "exited"
    /\ exit_code' = code
    /\ outcome' = what
    /\ stderr' = stderr \o msgs

\* 1. find_root_package(): runs `cargo metadata`, Err => exit(1)
DeployFindRoot ==
    /\ pc = "deploy"
    /\ invocations' = Append(invocations, <<"cargo", "metadata", "--format-version=1">>)
    /\ LET r == find_root_package(meta, cwd)
       IN IF r.ok
          THEN /\ root_dir' = r.root
               /\ root_package_name' = r.name
               /\ pc' = "chdir"
               /\ UNCHANGED <<exit_code, outcome, stderr>>
          ELSE /\ Exit(1, "resolve_failed", <<"Failed to determine root package">>)
               /\ UNCHANGED <<root_dir, root_package_name>>
    /\ UNCHANGED <<start, command, cwd, fs, meta, catalog, delete_dockerfile, cmd_args, rw>>

\* 2. env::set_current_dir(&root_dir)
DeployChdir ==
    /\ pc = "chdir"
    /\ \E ok \in BOOLEAN :
         IF ok /\ Exists(fs, root_dir)
         THEN /\ cwd' = root_dir
              /\ pc' = "dockerfile"
              /\ UNCHANGED <<exit_code, outcome, stderr>>
         ELSE /\ Exit(1, "chdir_failed", <<"Failed to change directory">>)
              /\ UNCHANGED cwd
    /\ UNCHANGED <<start, command, fs, meta, catalog, root_dir, root_package_name,
                   delete_dockerfile, cmd_args, invocations, rw>>

\* 3./4. File::open(Dockerfile).is_err() => fs::write, delete_dockerfile = true
\* open fails on a missing file and may fail on an existing one (not readable);
\* fs::write may fail.
DeployDockerfile ==
    /\ pc = "dockerfile"
    /\ LET path == Join(root_dir, "Dockerfile")
       IN \E open_ok \in BOOLEAN, write_ok \in BOOLEAN :
            /\ open_ok => Exists(fs, path)
            /\ open_ok => write_ok          \* no write is attempted: one outcome
            /\ IF open_ok
               THEN /\ pc' = "gcloudignore"
                    /\ UNCHANGED <<fs, delete_dockerfile, exit_code, outcome, stderr>>
               ELSE IF write_ok
               THEN /\ fs' = WriteFile(fs, path, dockerfile_content(root_package_name))
                    /\ delete_dockerfile' = TRUE
                    /\ pc' = "gcloudignore"
                    /\ UNCHANGED <<exit_code, outcome, stderr>>
               ELSE /\ Exit(1, "write_failed", <<"Failed to write Dockerfile">>)
                    /\ UNCHANGED <<fs, delete_dockerfile>>
    /\ UNCHANGED <<start, command, cwd, meta, catalog, root_dir, root_package_name,
                   cmd_args, invocations, rw>>

\* create_gcloudignore(): resolves the root again, "." when that fails
GcloudignoreDir == 
    LET r == find_root_package(meta, cwd)
    IN IF r.ok THEN r.root ELSE cwd

\* File::create and write_all of create_gcloudignore: either may fail, and a
\* failed write_all leaves the file created and empty
IgnoreFaults == {"none", "create", "write"}

\* variant: a failure to create the ignore-file ends deploy with exit(1)
DeployGcloudignoreFatal ==
    /\ pc = "gcloudignore"
    /\ IF ~Exists(fs, Join(root_dir, ".gcloudignore"))
       THEN /\ invocations' = Append(invocations, <<"cargo", "metadata", "--format-version=1">>)
            /\ \E fault \in IgnoreFaults :
                 IF fault = "none"
                 THEN /\ fs' = WriteFile(fs, Join(GcloudignoreDir, ".gcloudignore"),
                                         gcloudignore_content)
                      /\ pc' = "args"
                      /\ UNCHANGED <<stderr, exit_code, outcome>>
                 ELSE /\ Exit(1, "ignore_failed", <<"Failed to create .gcloudignore">>)
                      /\ UNCHANGED fs
       ELSE /\ pc' = "args"
            /\ UNCHANGED <<fs, invocations, stderr, exit_code, outcome>>
    /\ UNCHANGED <<start, command, cwd, meta, catalog, root_dir, root_package_name,
                   delete_dockerfile, cmd_args, rw>>

\* !root_dir.join(".gcloudignore").exists() => create_gcloudignore(), Err => warning
DeployGcloudignore ==
    /\ pc = "gcloudignore"
    /\ pc' = "args"
    /\ IF ~Exists(fs, Join(root_dir, ".gcloudignore"))
       THEN /\ invocations' = Append(invocations, <<"cargo", "metadata", "--format-version=1">>)
            /\ \E fault \in IgnoreFaults :
                 /\ fs' = IF fault = "none"
                          THEN WriteFile(fs, Join(GcloudignoreDir, ".gcloudignore"),
                                         gcloudignore_content)
                          ELSE IF fault = "write"
                          THEN WriteFile(fs, Join(GcloudignoreDir, ".gcloudignore"),
                                         [kind |-> "gcloudignore", data |-> <<>>])
                          ELSE fs
                 /\ stderr' = IF fault = "none" THEN stderr
                              ELSE Append(stderr, "Warning: Failed to create .gcloudignore")
       ELSE UNCHANGED <<fs, invocations, stderr>>
    /\ UNCHANGED <<start, command, cwd, meta, catalog, root_dir, root_package_name,
                   delete_dockerfile, cmd_args, exit_code, outcome, rw>>

BaseArgs(name) ==
    <<"run", "deploy", name, "--source", ".", "--allow-unauthenticated", "--use-http2">>

\* variant: the extra arguments are appended without the separator
build_cmd_args_no_separator(name, extra_args) == BaseArgs(name) \o extra_args

build_cmd_args(name, extra_args) ==
    LET base == BaseArgs(name)
    IN IF extra_args # <<>>
       THEN (IF base # <<>> THEN Append(base, "--") ELSE base) \o extra_args
       ELSE base

DeployArgs ==
    /\ pc = "args"
    /\ cmd_args' = build_cmd_args(root_package_name, command.extra_args)
    /\ pc' = "spawn"
    /\ UNCHANGED <<start, command, cwd, fs, meta, catalog, root_dir, root_package_name,
                   delete_dockerfile, invocations, exit_code, outcome, stderr, rw>>

\* Command::new("gcloud").args(&cmd_args).status().expect(..): a spawn error panics
DeploySpawn ==
    /\ pc = "spawn"
    /\ \E spawn_ok \in BOOLEAN :
         IF spawn_ok
         THEN /\ invocations' = Append(invocations, <<"gcloud">> \o cmd_args)
              /\ pc' = "gcloud"
              /\ UNCHANGED <<exit_code, outcome, stderr>>
         ELSE /\ Exit(101, "spawn_failed", <<"panic: Failed to spawn gcloud process">>)
              /\ UNCHANGED invocations
    /\ UNCHANGED <<start, command, cwd, fs, meta, catalog, root_dir, root_package_name,
                   delete_dockerfile, cmd_args, rw>>

\* variant: the cleanup is skipped
maybe_delete_dockerfile_skipped(remove_ok, printed) ==
    /\ fs' = fs
    /\ stderr' = stderr \o printed

\* fs::remove_file("Dockerfile") is relative to the working directory
maybe_delete_dockerfile(remove_ok, printed) ==
    IF delete_dockerfile
    THEN IF remove_ok /\ Exists(fs, Join(cwd, "Dockerfile"))
         THEN /\ fs' = RemoveFile(fs, Join(cwd, "Dockerfile"))
              /\ stderr' = stderr \o printed
         ELSE /\ fs' = fs
              /\ stderr' = (stderr \o printed)
                              \o <<"Warning: Failed to delete temporary Dockerfile">>
    ELSE /\ fs' = fs
         /\ stderr' = stderr \o printed

\* gcloud exited non-zero: message, cleanup, exit(1)
DeployGcloudFailed ==
    /\ pc = "gcloud"
    /\ \E remove_ok \in BOOLEAN :
         /\ (~delete_dockerfile) => remove_ok
         /\ maybe_delete_dockerfile(remove_ok, <<"gcloud run deploy failed">>)
    /\ pc' = "exited"
    /\ exit_code' = 1
    /\ outcome' = "gcloud_failed"
    /\ UNCHANGED <<start, command, cwd, meta, catalog, root_dir, root_package_name,
                   delete_dockerfile, cmd_args, invocations, rw>>

\* gcloud exited 0: cleanup, deploy returns and main returns
DeployGcloudSucceeded ==
    /\ pc = "gcloud"
    /\ \E remove_ok \in BOOLEAN :
         /\ (~delete_dockerfile) => remove_ok
         /\ maybe_delete_dockerfile(remove_ok, <<>>)
    /\ pc' = "exited"
    /\ exit_code' = 0
    /\ outcome' = "gcloud_ok"
    /\ UNCHANGED <<start, command, cwd, meta, catalog, root_dir, root_package_name,
                   delete_dockerfile, cmd_args, invocations, rw>>

\* ---------------------------------------------------------------- text
\* A text is the sequence of its pieces; str::ends_with, str::replace and
\* str::rfind act on it as they act on the characters of a string.
EndsWith(s, suffix) ==
    /\ Len(suffix) <= Len(s)
    /\ SubSeq(s, Len(s) - Len(suffix) + 1, Len(s)) = suffix

StartsWith(s, prefix) == IsPrefix(prefix, s)

Contains(text, pat) ==
    \E i \in 1..(Len(text) - Len(pat) + 1) : SubSeq(text, i, i + Len(pat) - 1) = pat

RECURSIVE Replace(_, _, _)
Replace(text, pat, rep) ==
    IF Len(text) < Len(pat) \/ text = <<>> THEN text
    ELSE IF SubSeq(text, 1, Len(pat)) = pat
         THEN rep \o Replace(SubSeq(text, Len(pat) + 1, Len(text)), pat, rep)
         ELSE <<Head(text)>> \o Replace(Tail(text), pat, rep)

\* str::rfind("::"): index of the last "::", 0 for None
RFindSep(s) ==
    LET at == { i \in 1..Len(s) : s[i] = "::" }
    IN IF at = {} THEN 0 ELSE CHOOSE i \in at : \A j \in at : j <= i

\* ---------------------------------------------------------------- rewrite_package_name
Blank == " "

RECURSIVE TrimStart(_)
TrimStart(line) ==
    IF line # <<>> /\ Head(line) = Blank THEN TrimStart(Tail(line)) ELSE line

NameLine(package_name) == <<"name =", " \"", package_name, "\"">>

\* one iteration of the loop over toml_input.lines(): st = [in_package, output]
RewriteStep(st, line, package_name) ==
    LET trimmed == TrimStart(line)
    IN IF StartsWith(trimmed, <<"[package]">>)
       THEN [in_package |-> TRUE, output |-> Append(st.output, line)]
       ELSE IF st.in_package /\ StartsWith(trimmed, <<"name =">>)
       THEN [in_package |-> FALSE, output |-> Append(st.output, NameLine(package_name))]
       ELSE [in_package |-> st.in_package, output |-> Append(st.output, line)]

RECURSIVE RewriteFrom(_, _, _)
RewriteFrom(st, lines, package_name) ==
    IF lines = <<>> THEN st.output
    ELSE RewriteFrom(RewriteStep(st, Head(lines), package_name), Tail(lines), package_name)

\* the rewritten manifest, as the sequence of the lines pushed to `output`
rewrite_package_name(toml_input, package_name) ==
    RewriteFrom([in_package |-> FALSE, output |-> <<>>], toml_input, package_name)

\* a String built by push_str(line), push('\n')
RECURSIVE Flatten(_)
Flatten(lines) ==
    IF lines = <<>> THEN <<>> ELSE (Head(lines) \o <<"\n">>) \o Flatten(Tail(lines))

\* ---------------------------------------------------------------- event catalog
EvPrefix == "google_cloudevents::google::events"

Ev(mods, short) == <<EvPrefix>> \o mods \o <<"::">> \o short

DocumentCreatedEvent == Ev(<<"::", "cloud", "::", "firestore", "::", "v1">>, <<"Document", "CreatedEvent">>)
DocumentDeletedEvent == Ev(<<"::", "cloud", "::", "firestore", "::", "v1">>, <<"Document", "DeletedEvent">>)
UserCreatedEvent == Ev(<<"::", "firebase", "::", "auth", "::", "v1">>, <<"User", "CreatedEvent">>)
MessagePublishedData == Ev(<<"::", "cloud", "::", "pubsub", "::", "v1">>, <<"MessagePublishedData">>)

\* catalogs considered for ALL_EVENT_PATHS (the crate is not part of the repository)
Catalogs ==
    { <<DocumentCreatedEvent, DocumentDeletedEvent, UserCreatedEvent, MessagePublishedData>>,
      <<UserCreatedEvent, DocumentDeletedEvent>>,
      <<MessagePublishedData>>,
      <<>> }

\* variant: the first of several matches is returned
map_event_type_first_match(cat, event_suffix) ==
    LET matches == SelectSeq(cat, LAMBDA event : EndsWith(event, event_suffix))
    IN IF Len(matches) = 0 THEN [ok |-> FALSE, value |-> <<>>, err |-> "No event found with the suffix"]
       ELSE [ok |-> TRUE, value |-> matches[1], err |-> ""]

map_event_type(cat, event_suffix) ==
    LET matches == SelectSeq(cat, LAMBDA event : EndsWith(event, event_suffix))
    IN IF Len(matches) = 0 THEN [ok |-> FALSE, value |-> <<>>, err |-> "No event found with the suffix"]
       ELSE IF Len(matches) = 1 THEN [ok |-> TRUE, value |-> matches[1], err |-> ""]
       ELSE [ok |-> FALSE, value |-> <<>>, err |-> "Multiple events found with the suffix"]

\* ---------------------------------------------------------------- templates
\* templates/event/src/main.rs: the two `use` lines and the two handler signatures
EVENT_MAIN_RS ==
    (<<"use ">> \o MessagePublishedData \o <<";", "use ">> \o UserCreatedEvent \o <<";">>)
    \o <<"ExtractGoogleEvent<", "MessagePublishedData", ">",
         "ExtractGoogleEvent<", "User", "CreatedEvent", ">">>

\* templates/http/src/main.rs
HTTP_MAIN_RS == <<"use axum::{response::Html, routing::get, Router}", ";", "Html(<h1>Hello, World!</h1>)">>

\* the manifest templates are not among the sources: a manifest with one
\* [package] section naming the package, as the scaffolder's contract expects
EVENT_CARGO_TOML ==
    << <<"[package]">>, <<"name =", " \"", "event_template", "\"">>, <<"version = \"0.1.0\"">>,
       <<"[dependencies]">>, <<"google-cloudevents = \"*\"">> >>

HTTP_CARGO_TOML ==
    << <<"[package]">>, <<"name =", " \"", "http_template", "\"">>, <<"version = \"0.1.0\"">>,
       <<"[dependencies]">>, <<"axum = \"*\"">> >>

PlaceholderEvent == DocumentCreatedEvent
PlaceholderShort == <<"Document", "CreatedEvent">>

\* ---------------------------------------------------------------- scaffolding
NoSuffix == <<NoValue>>

Manifest(lines) == [kind |-> "manifest", data |-> Flatten(lines)]
Source(text) == [kind |-> "source", data |-> text]

IoOk(f) == [ok |-> TRUE, fs |-> f, err |-> ""]
IoErr(f, e) == [ok |-> FALSE, fs |-> f, err |-> e]

ShortName(event_type) == SubSeq(event_type, RFindSep(event_type) + 1, Len(event_type))

substitute_event_type(main_rs_str, event_type) ==
    Replace(Replace(main_rs_str, PlaceholderEvent, event_type),
            PlaceholderShort, ShortName(event_type))

\* io names the file-system call that fails in this run, "none" when none does
write_event_files(f, project_dir, cargo_toml_str, main_rs_str, package_name, event_type, io) ==
    IF io = "manifest" THEN IoErr(f, "io")
    ELSE LET f1 == WriteFile(f, Join(project_dir, "Cargo.toml"),
                             Manifest(rewrite_package_name(cargo_toml_str, package_name)))
         IN IF io = "source" THEN IoErr(f1, "io")
            ELSE IoOk(WriteFile(f1, Join(Join(project_dir, "src"), "main.rs"),
                                Source(substitute_event_type(main_rs_str, event_type))))

write_files(f, project_dir, cargo_toml_str, main_rs_str, package_name, io) ==
    IF io = "manifest" THEN IoErr(f, "io")
    ELSE LET f1 == WriteFile(f, Join(project_dir, "Cargo.toml"),
                             Manifest(rewrite_package_name(cargo_toml_str, package_name)))
         IN IF io = "source" THEN IoErr(f1, "io")
            ELSE IoOk(WriteFile(f1, Join(Join(project_dir, "src"), "main.rs"),
                                Source(main_rs_str)))

\* fs::create_dir_all(new_project_dir.join("src"))
CreateDirAll(f, project_dir) ==
    LET f1 == IF Exists(f, project_dir) THEN f ELSE WriteFile(f, project_dir, DirEntry)
    IN IF Exists(f1, Join(project_dir, "src")) THEN f1
       ELSE WriteFile(f1, Join(project_dir, "src"), DirEntry)

NewProjectDir(cur, package_name) == Join(cur, package_name)

\* the event type chosen: --event-type through map_event_type, else the prompt
SelectedEventType(args, cat, io, selection) ==
    IF args.event_type # NoSuffix THEN map_event_type(cat, args.event_type)
    ELSE IF io = "prompt" \/ selection \notin 1..Len(cat)
         THEN [ok |-> FALSE, value |-> <<>>, err |-> "io"]
         ELSE [ok |-> TRUE, value |-> cat[selection], err |-> ""]

handle_new(args, f, cur, cat, io, selection) ==
    LET new_project_dir == NewProjectDir(cur, args.package_name)
        is_event_package == args.event \/ args.event_type # NoSuffix
        sel == IF is_event_package THEN SelectedEventType(args, cat, io, selection)
               ELSE [ok |-> TRUE, value |-> <<>>, err |-> ""]
        pkg_name == IF args.package_name = "" THEN "axum_serverless" ELSE args.package_name
    IN IF ~sel.ok THEN IoErr(f, sel.err)
       ELSE IF Exists(f, new_project_dir) /\ args.package_name # ""
       THEN IoErr(f, "Directory already exists")
       ELSE IF Exists(f, Join(new_project_dir, "Cargo.toml"))
       THEN IoErr(f, "Cargo.toml already exists")
       ELSE IF io = "mkdir" THEN IoErr(f, "io")
       ELSE LET f1 == CreateDirAll(f, new_project_dir)
            IN IF is_event_package
               THEN write_event_files(f1, new_project_dir, EVENT_CARGO_TOML, EVENT_MAIN_RS,
                                      pkg_name, sel.value, io)
               ELSE IF args.event_type # NoSuffix
               THEN write_files(f1, new_project_dir, EVENT_CARGO_TOML, EVENT_MAIN_RS, pkg_name, io)
               ELSE write_files(f1, new_project_dir, HTTP_CARGO_TOML, HTTP_MAIN_RS, pkg_name, io)

IoFaults == {"none", "prompt", "mkdir", "manifest", "source"}

\* main(): Commands::New and Commands::Init run handle_new; Err => message, exit(1)
RunHandleNew(args, message) ==
    \E io \in IoFaults, selection \in 1..(Len(catalog) + 1) :
        LET r == handle_new(args, fs, cwd, catalog, io, selection)
        IN /\ fs' = r.fs
           /\ pc' = "exited"
           /\ IF r.ok
              THEN /\ exit_code' = 0
                   /\ outcome' = "created"
                   /\ stderr' = stderr
              ELSE /\ exit_code' = 1
                   /\ outcome' = "new_failed"
                   /\ stderr' = stderr \o <<message, r.err>>

New ==
    /\ pc = "new"
    /\ RunHandleNew(command, "Failed to create new project")
    /\ UNCHANGED <<start, command, cwd, meta, catalog, root_dir, root_package_name,
                   delete_dockerfile, cmd_args, invocations, rw>>

\* Path::file_name() of the current directory, "" when it has none
FileName(p) ==
    LET c == Components(p)
    IN IF c = <<>> THEN "" ELSE c[Len(c)]

InitArgs(cur) ==
    [name |-> "init", extra_args |-> <<>>, package_name |-> FileName(cur),
     http |-> TRUE, event |-> FALSE, event_type |-> NoSuffix]

InitCmd ==
    /\ pc = "init"
    /\ RunHandleNew(InitArgs(cwd), "Failed to initialize project in current directory")
    /\ UNCHANGED <<start, command, cwd, meta, catalog, root_dir, root_package_name,
                   delete_dockerfile, cmd_args, invocations, rw>>

\* ---------------------------------------------------------------- the program
SeqsUpTo(S, n) == UNION { [1..k -> S] : k \in 0..n }

BaseDirs == {<<>>, Ws, WsA, WsB, WsASrc}

\* file systems the program may start in: the directories, plus any of `extra`
StartFsOf(extra) ==
    { [q \in BaseDirs \cup D |-> IF q \in D THEN extra[q] ELSE DirEntry] :
        D \in SUBSET DOMAIN extra }

DeployFiles ==
    [p \in {Join(Ws, "Dockerfile"), Join(WsA, "Dockerfile"), Join(Ws, ".gcloudignore")} |->
        IF p = Join(Ws, ".gcloudignore") THEN UserIgnore ELSE UserDockerfile]

ScaffoldFiles ==
    [p \in {Join(Ws, "foo"), Join(Ws, "ws"), <<"Cargo.toml">>} |->
        IF p = <<"Cargo.toml">> THEN [kind |-> "user", data |-> <<"[workspace]">>] ELSE DirEntry]

Metas ==
    { [result |-> "ok", ws |-> w] : w \in Workspaces }
    \cup { [result |-> r, ws |-> [workspace_root |-> <<>>, packages |-> <<>>]] :
              r \in MetaResults \ {"ok"} }

DefaultCatalog ==
    <<DocumentCreatedEvent, DocumentDeletedEvent, UserCreatedEvent, MessagePublishedData>>

DefaultMeta == [result |-> "nonzero", ws |-> [workspace_root |-> <<>>, packages |-> <<>>]]

Cmd(name, extra_args, package_name, event, event_type) ==
    [name |-> name, extra_args |-> extra_args, package_name |-> package_name,
     http |-> ~event, event |-> event, event_type |-> event_type]

DeployCommands ==
    { Cmd("deploy", a, "", FALSE, NoSuffix) : a \in SeqsUpTo({"--region", "us-east1"}, MaxExtraArgs) }

NewSuffixes ==
    { NoSuffix, <<"CreatedEvent">>, <<"Document", "DeletedEvent">>, <<"User", "CreatedEvent">>,
      <<"MessagePublishedData">>, <<"Nope">> }

NewCommands ==
    { Cmd("new", <<>>, n, e, t) : n \in {"foo", ""}, e \in BOOLEAN, t \in NewSuffixes }

InitCommands == { Cmd("init", <<>>, "", FALSE, NoSuffix) }

Idle ==
    /\ start = [cwd |-> cwd, fs |-> fs]
    /\ root_dir = <<>>
    /\ root_package_name = NoValue
    /\ delete_dockerfile = FALSE
    /\ cmd_args = <<>>
    /\ invocations = <<>>
    /\ exit_code = NoCode
    /\ outcome = "running"
    /\ stderr = <<>>

Init ==
    /\ rw = [input |-> <<>>]
    /\ \/ /\ command \in DeployCommands
          /\ cwd \in {Ws, WsA, WsB, WsASrc}
          /\ fs \in StartFsOf(DeployFiles)
          /\ meta \in Metas
          /\ catalog = DefaultCatalog
       \/ /\ command \in NewCommands \cup InitCommands
          /\ cwd \in {<<>>, Ws, WsA}
          /\ fs \in StartFsOf(ScaffoldFiles)
          /\ meta = DefaultMeta
          /\ catalog \in Catalogs
    /\ pc = command.name
    /\ Idle

Next ==
    \/ DeployFindRoot
    \/ DeployChdir
    \/ DeployDockerfile
    \/ DeployGcloudignore
    \/ DeployArgs
    \/ DeploySpawn
    \/ DeployGcloudFailed
    \/ DeployGcloudSucceeded
    \/ New
    \/ InitCmd

Spec == Init /\ [][Next]_vars

\* ---------------------------------------------------------------- rewrite_package_name alone
\* the lines a manifest is made of
LineSet ==
    { <<"[package]">>, <<Blank, "[package]">>,
      <<"name =", " \"", "old", "\"">>, <<Blank, "name =", " \"", "b", "\"">>,
      <<"name=", "\"c\"">>, <<"[dependencies]">>, <<"version = \"0.1.0\"">> }

InitRewrite ==
    /\ pc = "rewrite"
    /\ command = Cmd("new", <<>>, "foo", FALSE, NoSuffix)
    /\ cwd = <<>>
    /\ fs = [q \in BaseDirs |-> DirEntry]
    /\ meta = DefaultMeta
    /\ catalog = DefaultCatalog
    /\ Idle
    /\ \E toml_input \in SeqsUpTo(LineSet, MaxLines), package_name \in {"foo", "old"} :
         rw = [input |-> toml_input, name |-> package_name, i |-> 1,
               in_package |-> FALSE, output |-> <<>>]

RewriteAdvance ==
    LET st == RewriteStep([in_package |-> rw.in_package, output |-> rw.output],
                          rw.input[rw.i], rw.name)
    IN /\ rw' = [rw EXCEPT !.i = rw.i + 1, !.in_package = st.in_package, !.output = st.output]
       /\ UNCHANGED <<start, pc, command, cwd, fs, meta, catalog, root_dir, root_package_name,
                      delete_dockerfile, cmd_args, invocations, exit_code, outcome, stderr>>

\* the line is a [package] header
RewriteHeader ==
    /\ pc = "rewrite" /\ rw.i <= Len(rw.input)
    /\ StartsWith(TrimStart(rw.input[rw.i]), <<"[package]">>)
    /\ RewriteAdvance

\* the line is a name line and the rewriter is armed
RewriteName ==
    /\ pc = "rewrite" /\ rw.i <= Len(rw.input)
    /\ ~StartsWith(TrimStart(rw.input[rw.i]), <<"[package]">>)
    /\ rw.in_package /\ StartsWith(TrimStart(rw.input[rw.i]), <<"name =">>)
    /\ RewriteAdvance

\* any other line
RewritePass ==
    /\ pc = "rewrite" /\ rw.i <= Len(rw.input)
    /\ ~StartsWith(TrimStart(rw.input[rw.i]), <<"[package]">>)
    /\ ~(rw.in_package /\ StartsWith(TrimStart(rw.input[rw.i]), <<"name =">>))
    /\ RewriteAdvance

RewriteReturn ==
    /\ pc = "rewrite" /\ rw.i > Len(rw.input)
    /\ pc' = "rewritten"
    /\ UNCHANGED <<start, command, cwd, fs, meta, catalog, root_dir, root_package_name,
                   delete_dockerfile, cmd_args, invocations, exit_code, outcome, stderr, rw>>

NextRewrite == RewriteHeader \/ RewriteName \/ RewritePass \/ RewriteReturn

SpecRewrite == InitRewrite /\ [][NextRewrite]_vars

\* ---------------------------------------------------------------- map_event_type alone
SuffixPieces ==
    {"CreatedEvent", "DeletedEvent", "Document", "User", "::", "v1", "MessagePublishedData", "x"}

ResolveCatalogs == Catalogs \cup { <<UserCreatedEvent, UserCreatedEvent>> }

InitResolve ==
    /\ pc = "resolve"
    /\ command = Cmd("new", <<>>, "foo", TRUE, NoSuffix)
    /\ cwd = <<>>
    /\ fs = [q \in BaseDirs |-> DirEntry]
    /\ meta = DefaultMeta
    /\ catalog \in ResolveCatalogs
    /\ Idle
    /\ \E event_suffix \in SeqsUpTo(SuffixPieces, MaxSuffixLen) :
         rw = [suffix |-> event_suffix, result |-> [ok |-> FALSE, value |-> <<>>, err |-> ""]]

MapEventType ==
    /\ pc = "resolve"
    /\ rw' = [rw EXCEPT !.result = map_event_type(catalog, rw.suffix)]
    /\ pc' = "resolved"
    /\ UNCHANGED <<start, command, cwd, fs, meta, catalog, root_dir, root_package_name,
                   delete_dockerfile, cmd_args, invocations, exit_code, outcome, stderr>>

NextResolve == MapEventType

SpecResolve == InitResolve /\ [][NextResolve]_vars

\* ================================================================ properties
IsDeploy == command.name = "deploy"
Exited == pc = "exited"
BuildFile(dir) == Join(dir, "Dockerfile")
RootResolved == IsDeploy /\ root_dir # <<>>
GcloudRan == outcome \in {"gcloud_ok", "gcloud_failed"}
Warned(msg) == \E i \in 1..Len(stderr) : stderr[i] = msg

\* C1: a build file that exists in the resolved workspace root before deploy is
\* still there with the same content at every later point of the run.
C1_PreexistingBuildFileUntouched ==
    (RootResolved /\ Exists(start.fs, BuildFile(root_dir)))
        => /\ Exists(fs, BuildFile(root_dir))
           /\ fs[BuildFile(root_dir)] = start.fs[BuildFile(root_dir)]

\* the generated build file names the package as build artifact and as entrypoint
EmbedsPackageName(c, name) ==
    /\ c.kind = "dockerfile"
    /\ Len(c.data) = 2
    /\ \A i \in 1..Len(c.data) : c.data[i] = name

\* while gcloud runs, the build file written by this run is in the workspace root
C2_DuringInvocation ==
    (RootResolved /\ ~Exists(start.fs, BuildFile(root_dir)) /\ pc = "gcloud")
        => /\ Exists(fs, BuildFile(root_dir))
           /\ EmbedsPackageName(fs[BuildFile(root_dir)], root_package_name)
           /\ \E i \in 1..Len(meta.ws.packages) : meta.ws.packages[i].name = root_package_name

\* C2 (as claimed): with no build file before deploy, a build file embedding the
\* root package name exists while the deploy command runs, and none exists once
\* deploy has ended after the command exited with status 0 or non-zero.
C2_SynthesizedBuildFileGone ==
    /\ C2_DuringInvocation
    /\ (RootResolved /\ ~Exists(start.fs, BuildFile(root_dir)) /\ Exited /\ GcloudRan)
          => ~Exists(fs, BuildFile(root_dir))

\* C2 (amended): as claimed, except that when removing the file fails the run
\* ends with the deletion warning printed and the file left in place.
C2_SynthesizedBuildFileGoneUnlessWarned ==
    /\ C2_DuringInvocation
    /\ (RootResolved /\ ~Exists(start.fs, BuildFile(root_dir)) /\ Exited /\ GcloudRan)
          => (Exists(fs, BuildFile(root_dir))
                <=> Warned("Warning: Failed to delete temporary Dockerfile"))

\* C2 witness: gcloud failed and the build file written by this run was removed
C2_Witness ==
    /\ RootResolved /\ ~Exists(start.fs, BuildFile(root_dir))
    /\ Exited /\ outcome = "gcloud_failed"
    /\ delete_dockerfile
    /\ ~Exists(fs, BuildFile(root_dir))

\* C3: when deploy wrote the build file and the deploy command cannot be
\* spawned, the written build file is deleted before the process ends.
C3_SpawnFailureCleansUp ==
    (IsDeploy /\ Exited /\ delete_dockerfile /\ outcome = "spawn_failed")
        => ~Exists(fs, BuildFile(root_dir))

\* C4: deploy ends with exit code 0 exactly when the deploy command ran and
\* succeeded, and with exit code 1 on every error outcome.
C4_ExitCodeZeroOrOne ==
    (IsDeploy /\ Exited)
        => /\ (exit_code = 0 <=> outcome = "gcloud_ok")
           /\ (outcome # "gcloud_ok" => exit_code = 1)

ResolverDone == IsDeploy /\ meta.result = "ok" /\ (pc = "chdir" \/ outcome = "resolve_failed")
Resolved == IF outcome = "resolve_failed" THEN Err2 ELSE Ok2(root_dir, root_package_name)

PackageDirs(w) ==
    { Parent(w.packages[i].manifest_path) :
        i \in { j \in 1..Len(w.packages) : w.packages[j].manifest_path # NoPath } }

InsideWorkspace(w, dir) ==
    \/ Components(dir) = Components(w.workspace_root)
    \/ \E d \in PackageDirs(w) : IsPrefix(d, Components(dir))

First(S) == CHOOSE i \in S : \A j \in S : i <= j

AtRoot(w) ==
    { i \in 1..Len(w.packages) :
        /\ w.packages[i].manifest_path # NoPath
        /\ Components(w.packages[i].manifest_path)
             = Components(w.workspace_root) \o <<"Cargo.toml">> }

AtDir(w, dir) ==
    { i \in 1..Len(w.packages) :
        /\ w.packages[i].manifest_path # NoPath
        /\ w.packages[i].name # NoValue
        /\ Components(w.packages[i].manifest_path) = Components(dir) \o <<"Cargo.toml">> }

IsHeaderLine(line) == StartsWith(TrimStart(line), <<"[package]">>)
IsNameLine(line) == StartsWith(TrimStart(line), <<"name =">>)

FirstHeader(lines) ==
    LET H == { k \in 1..Len(lines) : IsHeaderLine(lines[k]) }
    IN IF H = {} THEN 0 ELSE First(H)

FirstNameAfterFirstHeader(lines) ==
    LET N == { k \in 1..Len(lines) :
                 FirstHeader(lines) # 0 /\ k > FirstHeader(lines) /\ IsNameLine(lines[k]) }
    IN IF N = {} THEN 0 ELSE First(N)

\* C6: the rewrite replaces exactly the first `name =` line after the first
\* [package] header and passes every other line through unchanged.
C6_OnlyFirstNameLineReplaced ==
    pc = "rewritten" =>
        /\ Len(rw.output) = Len(rw.input)
        /\ \A k \in 1..Len(rw.input) :
              rw.output[k] = IF k = FirstNameAfterFirstHeader(rw.input)
                             THEN NameLine(rw.name) ELSE rw.input[k]

IsFile(f, p, kind) == Exists(f, p) /\ f[p].kind = kind

\* C7: a successful `init` run from directory D leaves the manifest at
\* D/Cargo.toml and the source at D/src/main.rs, from the HTTP template.
C7_InitScaffoldsInCurrentDirectory ==
    (command.name = "init" /\ Exited /\ outcome = "created")
        => /\ IsFile(fs, Join(start.cwd, "Cargo.toml"), "manifest")
           /\ IsFile(fs, Join(Join(start.cwd, "src"), "main.rs"), "source")
           /\ fs[Join(Join(start.cwd, "src"), "main.rs")].data = HTTP_MAIN_RS

LiteralSuffix(s, suffix) == \E k \in 0..Len(s) : SubSeq(s, 1, k) \o suffix = s

Matching(cat, suffix) == { i \in 1..Len(cat) : LiteralSuffix(cat[i], suffix) }

\* C8: after scaffolding an event project whose --event-type suffix matches
\* exactly one catalog entry, the written source contains that identifier and
\* no longer the placeholder's short name (unless it is the resolved one's), and
\* the written manifest names the requested package.
C8_EventTypeSubstituted ==
    (/\ command.name = "new" /\ command.package_name # ""
     /\ command.event_type # NoSuffix
     /\ Cardinality(Matching(catalog, command.event_type)) = 1
     /\ Exited /\ outcome = "created")
        => LET dir == Join(start.cwd, command.package_name)
               id == catalog[First(Matching(catalog, command.event_type))]
               src == fs[Join(Join(dir, "src"), "main.rs")].data
           IN /\ Contains(src, id)
              /\ (Contains(src, PlaceholderShort) => EndsWith(id, PlaceholderShort))
              /\ Contains(fs[Join(dir, "Cargo.toml")].data, NameLine(command.package_name))

\* C9: map_event_type returns the one entry that ends with the suffix, fails
\* with the no-event error when none does and with the multiple-events error
\* when several do; a returned identifier always ends with the suffix.
C9_ResolveExactlyOneMatch ==
    pc = "resolved" =>
        LET M == Matching(catalog, rw.suffix)
            r == rw.result
        IN /\ Cardinality(M) = 1 => (r.ok /\ r.value = catalog[First(M)])
           /\ Cardinality(M) = 0 => (~r.ok /\ r.err = "No event found with the suffix")
           /\ Cardinality(M) >= 2 => (~r.ok /\ r.err = "Multiple events found with the suffix")
           /\ r.ok => LiteralSuffix(r.value, rw.suffix)

\* C9 witness: a suffix shared by no other entry resolves to its entry
C9_Witness ==
    /\ pc = "resolved"
    /\ Len(catalog) = 4
    /\ rw.suffix = <<"User", "CreatedEvent">>
    /\ rw.result.ok /\ rw.result.value = UserCreatedEvent

\* C10: gcloud receives the base tokens, then `--` and the extra arguments in
\* order when there are any, and the base tokens alone when there are none.
C10_DeployArguments ==
    \A i \in 1..Len(invocations) :
        invocations[i][1] = "gcloud" =>
            invocations[i] =
                <<"gcloud", "run", "deploy", root_package_name, "--source", ".",
                  "--allow-unauthenticated", "--use-http2">>
                \o (IF command.extra_args = <<>> THEN <<>> ELSE <<"--">> \o command.extra_args)

\* C10 witness: gcloud started with two extra arguments after the separator
C10_Witness ==
    /\ pc = "gcloud"
    /\ command.extra_args = <<"--region", "us-east1">>
    /\ invocations[Len(invocations)][1] = "gcloud"
    /\ Len(invocations[Len(invocations)]) = 11

\* the metadata of this run names no package for a deploy started in start.cwd
ResolutionFails ==
    \/ meta.result # "ok"
    \/ /\ AtRoot(meta.ws) # {}
       /\ meta.ws.packages[First(AtRoot(meta.ws))].name = NoValue
    \/ /\ AtRoot(meta.ws) = {}
       /\ AtDir(meta.ws, start.cwd) = {}

GcloudInvoked == \E i \in 1..Len(invocations) : invocations[i][1] = "gcloud"

\* C11: when the workspace resolution of deploy fails, deploy exits with code 1
\* at once: the working directory and the file system are as they were at the
\* start (no build file, no ignore-file written) and gcloud is never started.
C11_ResolutionFailureHasNoSideEffect ==
    (IsDeploy /\ ResolutionFails)
        => /\ pc \in {"deploy", "exited"}
           /\ Exited => (outcome = "resolve_failed" /\ exit_code = 1)
           /\ cwd = start.cwd
           /\ fs = start.fs
           /\ ~GcloudInvoked

\* C11 witness: a virtual workspace, deploy started below a package directory
C11_Witness ==
    /\ IsDeploy /\ Exited /\ outcome = "resolve_failed"
    /\ meta.result = "ok" /\ AtRoot(meta.ws) = {}
    /\ start.cwd = WsASrc
    /\ ~Exists(fs, BuildFile(Ws)) /\ ~Exists(fs, Join(Ws, ".gcloudignore"))

IgnoreFile(dir) == Join(dir, ".gcloudignore")
IgnoreWarned == Warned("Warning: Failed to create .gcloudignore")
PastIgnoreStep ==
    \/ pc \in {"args", "spawn", "gcloud"}
    \/ Exited /\ outcome \in {"spawn_failed", "gcloud_ok", "gcloud_failed"}

\* C12: an ignore-file present in the workspace root before deploy is never
\* changed; when there is none deploy tries to create one (it is there with the
\* exclusion list, or the warning has been printed); the ignore-file step never
\* ends the run, which goes on to start gcloud, and the exit code after gcloud ran is 0
\* or 1 by gcloud's status alone; an ignore-file written by deploy is still
\* there after the cleanup.
C12_IgnoreFileBestEffort ==
    RootResolved =>
        /\ Exists(start.fs, IgnoreFile(root_dir))
             => /\ Exists(fs, IgnoreFile(root_dir))
                /\ fs[IgnoreFile(root_dir)] = start.fs[IgnoreFile(root_dir)]
                /\ ~IgnoreWarned
        /\ (~Exists(start.fs, IgnoreFile(root_dir)) /\ PastIgnoreStep)
             => \/ IgnoreWarned
                \/ /\ Exists(fs, IgnoreFile(root_dir))
                   /\ fs[IgnoreFile(root_dir)] = gcloudignore_content
        /\ IgnoreWarned => PastIgnoreStep
        /\ (Exited /\ outcome \notin {"chdir_failed", "write_failed"}) => PastIgnoreStep
        /\ (Exited /\ GcloudRan) => (exit_code = IF outcome = "gcloud_ok" THEN 0 ELSE 1)

\* C12 witness: the ignore-file could not be created, gcloud ran and succeeded
C12_Witness ==
    /\ RootResolved /\ Exited
    /\ IgnoreWarned
    /\ ~Exists(fs, IgnoreFile(root_dir))
    /\ GcloudInvoked
    /\ outcome = "gcloud_ok" /\ exit_code = 0

\* C12 witness of the cleanup: the build file written by this run is removed
\* and the ignore-file written by this run stays
C12_WitnessKept ==
    /\ RootResolved /\ Exited /\ delete_dockerfile
    /\ ~Exists(start.fs, IgnoreFile(root_dir))
    /\ ~Exists(fs, BuildFile(root_dir))
    /\ Exists(fs, IgnoreFile(root_dir))

IsMetadataQuery(call) == call[1] = "cargo"
IsDeployCommand(call) == call[1] = "gcloud"

\* C13: in a run of deploy the subprocesses started are the metadata query,
\* once and before any file is written, and then the deploy command: the
\* workspace is resolved once and never again.
C13_MetadataQueriedOnce ==
    IsDeploy =>
        /\ Len(invocations) <= 2
        /\ Len(invocations) >= 1 => IsMetadataQuery(invocations[1])
        /\ Len(invocations) = 2 => IsDeployCommand(invocations[2])
        /\ Len(invocations) = 0 => fs = start.fs
        /\ pc # "deploy" => Len(invocations) >= 1

====
